---- MODULE Spec2Model ----
(***************************************************************************)
(* Model of browser_history_diff.py: the incremental, watermark-driven     *)
(* collection of browser history into per-source CSV event logs.           *)
(*                                                                         *)
(* Units.  Native timestamps are integers in microseconds (Firefox: since  *)
(* 1970, Chromium: since 1601, Safari: the REAL seconds since 2001 scaled  *)
(* to microseconds).  A converted timestamp `ts` is kept in microseconds   *)
(* since the Unix epoch; `ts_unix = round(ts, 3)` and every watermark are  *)
(* kept in milliseconds.  The two epoch offsets are scaled down so that    *)
(* all values fit the integers of TLC  ; the arithmetic is the code's.    *)
(***************************************************************************)
EXTENDS Integers, Sequences, FiniteSets, TLC

\* ------------------------------------------------------------- bounds ----
MaxRuns   == 2      \* runs of main() in one behaviour
MaxVisits == 1      \* rows held by all backends together
MaxFaults == 1      \* injected faults in one behaviour
MaxCands  == 2      \* candidates given to write_csv_append called on its own
MaxRows   == 2      \* rows of a source's databases when a collector is called on its own
MaxHistory == 2     \* rows held by all backends together in the runs over a longer history
MaxEntries == 3     \* entries of the list given to normalize_items called on its own
MaxYtRuns  == 2     \* runs of yt_rss_diff's main() in one behaviour
MaxVideos  == 2     \* videos published on all feeds together
MaxYtFaults == 1    \* injected faults in one behaviour of yt_rss_diff
FeedWindow == 2     \* entries a feed's server keeps (YouTube: the latest 15)

\* ---------------------------------------------------------- constants ----
UsPerSec    == 1000000   \* 1_000_000 in the conversions
UsPerMs     == 1000      \* round(ts, 3): one ts_unix unit is 1000 us
Epoch1601Us == 5000      \* -EPOCH_1601.timestamp() in us, scaled
Epoch2001Us == 1000      \* EPOCH_2001.timestamp() in us, scaled
MaxInstantUs == 9000     \* the last instant a datetime can hold, in us, scaled

Sources == {"firefox", "chrome", "edge", "safari"}

\* collectors = [collect_firefox, collect_chrome, collect_edge, collect_safari]
collectors == <<"collect_firefox", "collect_chrome", "collect_edge", "collect_safari">>

\* fn.__name__.replace("collect_", "")
StripCollect(fname) ==
    CASE fname = "collect_firefox" -> "firefox"
      [] fname = "collect_chrome"  -> "chrome"
      [] fname = "collect_edge"    -> "edge"
      [] fname = "collect_safari"  -> "safari"

\* Profile directories probed per source, in glob order.
ProfilesOf(src) ==
    CASE src = "firefox" -> <<"p1", "p2">>
      [] src = "chrome"  -> <<"Default">>
      [] src = "edge"    -> <<"Default">>
      [] src = "safari"  -> <<"default">>

ProfileSet(src) == {ProfilesOf(src)[i] : i \in 1..Len(ProfilesOf(src))}

\* Instants (us since the Unix epoch) at which a visit may have happened.
Instants == {1400, 3000}
\* A url is the sequence of its characters.
Urls     == {<<"h", "t", "t", "p", ":", "/", "/", "a">>}
Titles   == {"t"}

Min(a, b) == IF a < b THEN a ELSE b
Max(a, b) == IF a > b THEN a ELSE b

RECURSIVE SeqMax(_)
SeqMax(s) == IF Len(s) = 1 THEN s[1] ELSE Max(s[1], SeqMax(Tail(s)))

\* ------------------------------------------------------- time helpers ----
\* round(ts, 3) for ts > 0 given in us; result in ms (ties to even).
Round3(us) ==
    LET q == us \div UsPerMs
        r == us % UsPerMs
    IN  IF 2 * r > UsPerMs THEN q + 1
        ELSE IF 2 * r < UsPerMs THEN q
        ELSE IF q % 2 = 0 THEN q ELSE q + 1

\* Each conversion returns 0.0 when building the datetime raises: a value
\* that is no number (SQLite orders text above every number; the model
\* keeps it as a native value beyond every datetime) or is out of range.
chrome_time_to_unix_s(micro_since_1601) ==
    IF micro_since_1601 - Epoch1601Us > MaxInstantUs THEN 0
    ELSE micro_since_1601 - Epoch1601Us

safari_time_to_unix_s(sec_since_2001) ==
    IF sec_since_2001 + Epoch2001Us > MaxInstantUs THEN 0
    ELSE sec_since_2001 + Epoch2001Us

firefox_time_to_unix_s(micro_since_1970) ==
    IF micro_since_1970 > MaxInstantUs THEN 0 ELSE micro_since_1970

ToUnix(src, native) ==
    CASE src = "firefox" -> firefox_time_to_unix_s(native)
      [] src = "safari"  -> safari_time_to_unix_s(native)
      [] OTHER           -> chrome_time_to_unix_s(native)

\* The native encoding a backend stores for an instant.
ToNative(src, instant) ==
    CASE src = "firefox" -> instant
      [] src = "safari"  -> instant - Epoch2001Us
      [] OTHER           -> instant + Epoch1601Us

\* The query parameter computed from the watermark `last` (ms).
Param(src, last) ==
    CASE src = "firefox" -> last * UsPerMs
      [] src = "safari"  -> IF last > 0 THEN last * UsPerMs - Epoch2001Us ELSE 0
      [] OTHER           -> IF last > 0 THEN last * UsPerMs + Epoch1601Us ELSE 0

\* -------------------------------------------------------------- state ----
\* state.get(key, default)
Get(st, key, default) == IF key \in DOMAIN st THEN st[key] ELSE default

EmptyMap == [k \in {} |-> 0]

\* state[key] = value
Put(st, key, value) ==
    [k \in (DOMAIN st) \cup {key} |-> IF k = key THEN value ELSE st[k]]

\* The watermark file: absent, unparsable text, or the text of a mapping
\* (json.dumps and json.loads are inverse on a mapping of floats).
AbsentFile  == [kind |-> "absent",  map |-> EmptyMap]
\* An unparsable file: the text of `st` cut short.
CorruptFile(st) == [kind |-> "corrupt", map |-> st]
FileOf(st)  == [kind |-> "ok", map |-> st]

\* load_state that takes what it can from an unparsable file.
load_state_Lenient(file) == file.map

load_state(file) == IF file.kind = "ok" THEN file.map ELSE EmptyMap

\* save_state outcomes: "ok"; "noopen" (json.dumps or open() raised, the file
\* is not touched); "torn" (open(.., "w") truncated the file and the write
\* raised before the text was complete).
SaveOutcomes == {"ok", "noopen", "torn"}

save_state(st, file, outcome) ==
    CASE outcome = "ok"     -> FileOf(st)
      [] outcome = "noopen" -> file
      [] outcome = "torn"   -> CorruptFile(st)

\* --------------------------------------------------------- CSV writer ----
\* headers = ["url", "title", "ts_unix", "browser", "profile"]; the header
\* line of a log, as csv.DictWriter.writeheader() writes it.
Header == [url |-> <<"u", "r", "l">>, title |-> "title",
           ts_unix |-> "ts_unix", browser |-> "browser", profile |-> "profile"]

\* w.writerow({...}): the line written for an Event (numbers through str()).
CsvLine(r) == [url |-> r.url, title |-> r.title, ts_unix |-> ToString(r.ts_unix),
               browser |-> r.browser, profile |-> r.profile]

\* (rr.get("url",""), rr.get("ts_unix",""), rr.get("profile","")) of a line read
ExistingKey(rr) == <<rr.url, rr.ts_unix, rr.profile>>

\* (r.get("url",""), str(r.get("ts_unix","")), r.get("profile","")) of a candidate
CandidateKey(r) == <<r.url, ToString(r.ts_unix), r.profile>>

\* The data rows csv.DictReader yields for a log (the first line names the fields).
DataRows(file) == IF Len(file) = 0 THEN <<>> ELSE Tail(file)

\* Outcome of one write_csv_append call: `nread` data rows are read before
\* the read raises (all of them when it does not raise); when `wok` is false
\* the append raises after `nret` writerow calls returned and only the first
\* `ndisk` of the lines to write reached the file.
IoClean(file) == [nread |-> Len(DataRows(file)), wok |-> TRUE, nret |-> 0, ndisk |-> 0]

\* write_csv_append without the scan of the existing rows.
write_csv_append_NoDedup(cands, file, io) ==
    LET toWrite == [k \in 1..Len(cands) |-> CsvLine(cands[k])]
        lines   == (IF Len(file) = 0 THEN <<Header>> ELSE <<>>) \o toWrite
    IN  IF io.wok
        THEN [file |-> file \o lines, new_written |-> Len(toWrite)]
        ELSE [file |-> file \o SubSeq(lines, 1, Min(io.ndisk, Len(lines))),
              new_written |-> Min(io.nret, Len(toWrite))]

\* write_csv_append with the profile left out of the identity key.
write_csv_append_UrlTsKey(cands, file, io) ==
    LET onDisk   == DataRows(file)
        nr       == Min(io.nread, Len(onDisk))
        existing == {<<onDisk[k].url, onDisk[k].ts_unix>> : k \in 1..nr}
        fresh    == SelectSeq(cands, LAMBDA r : <<r.url, ToString(r.ts_unix)>> \notin existing)
        toWrite  == [k \in 1..Len(fresh) |-> CsvLine(fresh[k])]
        lines    == (IF Len(file) = 0 THEN <<Header>> ELSE <<>>) \o toWrite
    IN  IF io.wok
        THEN [file |-> file \o lines, new_written |-> Len(toWrite)]
        ELSE [file |-> file \o SubSeq(lines, 1, Min(io.ndisk, Len(lines))),
              new_written |-> Min(io.nret, Len(toWrite))]

\* write_csv_append that opens the log with "w" instead of "a".
write_csv_append_Truncates(cands, file, io) ==
    LET onDisk   == DataRows(file)
        nr       == Min(io.nread, Len(onDisk))
        existing == {ExistingKey(onDisk[k]) : k \in 1..nr}
        fresh    == SelectSeq(cands, LAMBDA r : CandidateKey(r) \notin existing)
        toWrite  == [k \in 1..Len(fresh) |-> CsvLine(fresh[k])]
        lines    == <<Header>> \o toWrite
    IN  IF io.wok
        THEN [file |-> lines, new_written |-> Len(toWrite)]
        ELSE [file |-> SubSeq(lines, 1, Min(io.ndisk, Len(lines))),
              new_written |-> Min(io.nret, Len(toWrite))]

write_csv_append(rows, file, io) ==
    LET onDisk   == DataRows(file)
        nr       == Min(io.nread, Len(onDisk))
        existing == {ExistingKey(onDisk[i]) : i \in 1..nr}
        fresh    == SelectSeq(rows, LAMBDA r : CandidateKey(r) \notin existing)
        toWrite  == [i \in 1..Len(fresh) |-> CsvLine(fresh[i])]
        lines    == (IF Len(file) = 0 THEN <<Header>> ELSE <<>>) \o toWrite
    IN  IF io.wok
        THEN [file |-> file \o lines, new_written |-> Len(toWrite)]
        ELSE [file |-> file \o SubSeq(lines, 1, Min(io.ndisk, Len(lines))),
              new_written |-> Min(io.nret, Len(toWrite))]

\* The outcomes write_csv_append can have on `file` with `n` candidates.
IoOutcomes(file, n) ==
    LET full == Len(DataRows(file))
        hdr  == IF Len(file) = 0 THEN 1 ELSE 0
    IN  {[nread |-> k, wok |-> TRUE, nret |-> 0, ndisk |-> 0] : k \in 0..full}
        \cup {io \in [nread : 0..full, wok : {FALSE}, nret : 0..n, ndisk : 0..(n + hdr)] :
                 io.ndisk <= io.nret + hdr}

\* Number of faults an outcome stands for.
IoFaults(file, io) ==
    (IF io.nread < Len(DataRows(file)) THEN 1 ELSE 0) + (IF io.wok THEN 0 ELSE 1)

\* --------------------------------------------------------- collectors ----
\* Per-profile outcomes: the database is read ("ok"), the profile is skipped
\* (file missing, safe_copy returned None, sqlite3.connect raised), the
\* query raises after yielding k of the rows of the database ("qerr"), or
\* the test db.exists() raises ("noaccess": the directory of the database
\* cannot be searched and Path.exists() propagates the PermissionError).
\* collect_firefox and collect_safari make that test outside any try;
\* the Chromium collectors find the databases by glob, which yields nothing
\* for such a directory.
SkipKinds == {"missing", "nocopy", "noopen"}
ProfileOutcomes(src, db) ==
    {[kind |-> "ok", k |-> 0]} \cup {[kind |-> s, k |-> 0] : s \in SkipKinds}
        \cup {[kind |-> "qerr", k |-> k] : k \in 0..Len(db)}
        \cup (IF src \in {"firefox", "safari"}
              THEN {[kind |-> "noaccess", k |-> 0]} ELSE {})

\* p is a prefix of s
Prefix(p, s) == Len(s) >= Len(p) /\ SubSeq(s, 1, Len(p)) = p

\* SQLite's LIKE compares ASCII letters without regard to case.
Lower(c) ==
    CASE c = "H" -> "h"
      [] c = "T" -> "t"
      [] c = "P" -> "p"
      [] OTHER   -> c

\* url LIKE 'http%'
LikeHttp(url) ==
    Len(url) >= 4 /\ [k \in 1..4 |-> Lower(url[k])] = <<"h", "t", "t", "p">>

\* WHERE url LIKE 'http%' AND visit_time > ?
Query(db, param) == SelectSeq(db, LAMBDA row : LikeHttp(row.url) /\ row.t > param)

\* The loop body over the rows the cursor yields.
RECURSIVE Normalize(_, _, _)
Normalize(src, prof, got) ==
    IF Len(got) = 0 THEN <<>>
    ELSE LET row == got[1]
             ts  == ToUnix(src, row.t)
         IN  (IF ts <= 0 THEN <<>>
              ELSE <<[browser |-> src, profile |-> prof, url |-> row.url,
                      title |-> row.title, ts_unix |-> Round3(ts)]>>)
             \o Normalize(src, prof, Tail(got))

\* One profile's contribution to `results`.
CollectProfile(src, prof, last, db, o) ==
    IF o.kind \in SkipKinds THEN <<>>
    ELSE LET q   == Query(db, Param(src, last))
             got == IF o.kind = "qerr" THEN SubSeq(q, 1, Min(o.k, Len(q))) ELSE q
         IN  Normalize(src, prof, got)

RECURSIVE CollectProfiles(_, _, _, _, _)
CollectProfiles(src, profs, last, dbs, oc) ==
    IF Len(profs) = 0 THEN <<>>
    ELSE CollectProfile(src, profs[1], last, dbs[profs[1]], oc[profs[1]])
         \o CollectProfiles(src, Tail(profs), last, dbs, oc)

\* The watermark assigned whether or not there are results.
Finish_AlwaysSet(st, key, results, last) ==
    [name  |-> key, rows |-> results, prev |-> last,
     state |-> IF Len(results) > 0
               THEN Put(st, key, Max(last, SeqMax([i \in 1..Len(results) |-> results[i].ts_unix])))
               ELSE Put(st, key, last)]

\* if results: state[key] = max(last, max(r["ts_unix"] for r in results))
\* return key, results, last
Finish(st, key, results, last) ==
    [name  |-> key, rows |-> results, prev |-> last,
     state |-> IF Len(results) > 0
               THEN Put(st, key, Max(last, SeqMax([i \in 1..Len(results) |-> results[i].ts_unix])))
               ELSE st]

collect_firefox(st, dbs, oc) ==
    LET key  == "firefox"
        last == Get(st, key, 0)
    IN  Finish(st, key, CollectProfiles(key, ProfilesOf(key), last, dbs, oc), last)

_collect_chromium_family(st, family_key, dbs, oc) ==
    LET last == Get(st, family_key, 0)
    IN  Finish(st, family_key,
               CollectProfiles(family_key, ProfilesOf(family_key), last, dbs, oc), last)

collect_chrome(st, dbs, oc) == _collect_chromium_family(st, "chrome", dbs, oc)

collect_edge(st, dbs, oc) == _collect_chromium_family(st, "edge", dbs, oc)

collect_safari(st, dbs, oc) ==
    LET key  == "safari"
        last == Get(st, key, 0)
    IN  IF oc["default"].kind \in SkipKinds
        THEN [name |-> key, rows |-> <<>>, prev |-> last, state |-> st]
        ELSE Finish(st, key, CollectProfile(key, "default", last, dbs["default"], oc["default"]), last)

\* fn(state) for the collector named fname
Call(fname, st, dbs, oc) ==
    CASE fname = "collect_firefox" -> collect_firefox(st, dbs, oc)
      [] fname = "collect_chrome"  -> collect_chrome(st, dbs, oc)
      [] fname = "collect_edge"    -> collect_edge(st, dbs, oc)
      [] fname = "collect_safari"  -> collect_safari(st, dbs, oc)

\* except Exception: name, rows, prev = fn.__name__.replace("collect_", ""), [],
\*                                      state.get(fn.__name__, 0.0)
\* A handler that starts the mapping afresh.
Crashed_ClearsState(fname, st) ==
    [name |-> StripCollect(fname), rows |-> <<>>, prev |-> Get(st, fname, 0), state |-> EmptyMap]

Crashed(fname, st) ==
    [name |-> StripCollect(fname), rows |-> <<>>, prev |-> Get(st, fname, 0), state |-> st]

\* The outcomes of one collector call: it raises, or every profile has its own.
CollectorOutcomes(src, dbs) ==
    {[crash |-> TRUE, prof |-> [p \in ProfileSet(src) |-> [kind |-> "ok", k |-> 0]]]}
        \cup {[crash |-> FALSE, prof |-> f] :
                 f \in {g \in [ProfileSet(src) ->
                                 UNION {ProfileOutcomes(src, dbs[p]) : p \in ProfileSet(src)}] :
                           \A p \in ProfileSet(src) : g[p] \in ProfileOutcomes(src, dbs[p])}}

\* The call raises: some exception leaves the collector.
Raises(oc) == oc.crash \/ \E p \in DOMAIN oc.prof : oc.prof[p].kind = "noaccess"

OcFaults(src, oc) ==
    IF oc.crash THEN 1 ELSE Cardinality({p \in ProfileSet(src) : oc.prof[p].kind # "ok"})

\* A collector that raises only after it has updated the mapping.
Invoke_LateRaise(fname, st, dbs, oc) ==
    IF Raises(oc) THEN Crashed(fname, Call(fname, st, dbs, oc.prof).state)
    ELSE Call(fname, st, dbs, oc.prof)

\* try: name, rows, prev = fn(state)  except Exception: ...
Invoke(fname, st, dbs, oc) ==
    IF Raises(oc) THEN Crashed(fname, st) ELSE Call(fname, st, dbs, oc.prof)

\* summaries.append({...})
SummaryEntry(nm, new_written, pv, st) ==
    [browser |-> nm, new_rows |-> new_written, prev_last_ts |-> pv,
     new_last_ts |-> Get(st, nm, pv)]

\* ------------------------------------------------------ state machine ----
VARIABLES
    backend,     \* [source -> [profile -> rows of the history database]]
    logs,        \* [source -> lines of out/history_<source>.csv]
    disk,        \* content of STATE_PATH
    pc,          \* position of main(): idle, collect, write, save, summary, done,
                 \* aborted (uncaught exception), hung (in a call that blocks)
    i,           \* index of fn in collectors
    state,       \* main's `state`
    name, rows, prev,    \* main's loop variables
    summaries, all_rows, \* main's accumulators
    printed,     \* what the last finished run printed (its summary)
    run,         \* runs started so far
    faults,      \* faults injected so far
    call,        \* the last write_csv_append call: arguments and result
    hist         \* history of the current run, for stating properties

\* yt_rss_diff.py is a second program, with a state file of its own.
VARIABLES
    server,      \* [feed url -> what the feed's server holds: entries, etag]
    yt_disk,     \* content of its STATE_PATH (~/.yt_feed_state.json)
    yt_pc,       \* position of its main(): idle, pool, merge, artifacts, save,
                 \* done, aborted (uncaught exception)
    yt_state,    \* main's `state`
    workers,     \* [feed url -> the pool's task for it: position and locals]
    results,     \* main's `results`, in the order the tasks completed
    payload,     \* what the last finished run reported (per_feed, items)
    yt_run,      \* runs of yt_rss_diff started so far
    yt_faults,   \* faults injected so far
    yt_hist,     \* history of the current run, for stating properties
    ncall        \* a call of normalize_items on its own: arguments and result

ytvars == <<server, yt_disk, yt_pc, yt_state, workers, results, payload,
            yt_run, yt_faults, yt_hist, ncall>>

vars == <<backend, logs, disk, pc, i, state, name, rows, prev, summaries,
          all_rows, printed, run, faults, call, hist, ytvars>>

\* ------------------------------------------- yt_rss_diff: functions ----
\* Python's None, for the values that are a string or None.
None == "None"

\* bool(x) of a string or None
Truthy(x) == x # None /\ x # ""

\* An `or` that never takes its second operand.
Or_First(a, b) == a

\* a or b
Or(a, b) == IF Truthy(a) THEN a ELSE b

\* An entry as feedparser gives it: yt_videoid ("" when the element is not
\* there), the link reduced to what urlparse and parse_qs find in it (the
\* value of v, the parts of the path), the id split at its colons, a title
\* and the time of publication.
NoLink == [v |-> "", path |-> <<>>]

\* parts[0].lower()
LowerWord(w) == CASE w = "Shorts" -> "shorts" [] w = "EMBED" -> "embed" [] OTHER -> w

parse_video_id(entry) ==
    IF Truthy(entry.yt_videoid) THEN entry.yt_videoid
    ELSE IF entry.link.v # "" THEN entry.link.v
    ELSE LET parts == entry.link.path
             eid   == entry.id
         IN  IF Len(parts) >= 2 /\ LowerWord(parts[1]) = "shorts" THEN parts[2]
             ELSE IF Len(parts) >= 2 /\ LowerWord(parts[1]) = "embed" THEN parts[2]
             ELSE IF Len(eid) >= 2 THEN eid[Len(eid)]
             ELSE IF Len(eid) = 1 THEN eid[1]
             ELSE ""

\* new_items.append({...}) for entry e with video id vid
Item(feed_url, channel_title, channel_id, e, vid) ==
    [feed_url |-> feed_url, channel_title |-> channel_title, channel_id |-> channel_id,
     video_id |-> vid, title |-> e.title, published |-> e.published]

\* for i, e in enumerate(entries): ... break at the known item
RECURSIVE NewItems(_, _, _, _, _)
NewItems(feed_url, channel_title, channel_id, entries, last_seen_id) ==
    IF Len(entries) = 0 THEN <<>>
    ELSE LET e   == entries[1]
             vid == parse_video_id(e)
         IN  IF Truthy(last_seen_id) /\ vid = last_seen_id THEN <<>>
             ELSE <<Item(feed_url, channel_title, channel_id, e, vid)>>
                  \o NewItems(feed_url, channel_title, channel_id, Tail(entries), last_seen_id)

\* A diff that also returns the known item.
normalize_items_Inclusive(feed_url, meta_feed, entries, last_seen_id) ==
    LET all == NewItems(feed_url, meta_feed.title, meta_feed.yt_channelid, entries, None)
        new == NewItems(feed_url, meta_feed.title, meta_feed.yt_channelid, entries, last_seen_id)
    IN  [items |-> SubSeq(all, 1, IF Len(new) < Len(all) THEN Len(new) + 1 ELSE Len(new)),
         first_vid |-> IF Len(entries) = 0 THEN None ELSE parse_video_id(entries[1]),
         channel_title |-> meta_feed.title, channel_id |-> meta_feed.yt_channelid]

\* return new_items, first_entry_vid, channel_title, channel_id
normalize_items(feed_url, meta_feed, entries, last_seen_id) ==
    [items |-> NewItems(feed_url, meta_feed.title, meta_feed.yt_channelid, entries, last_seen_id),
     first_vid |-> IF Len(entries) = 0 THEN None ELSE parse_video_id(entries[1]),
     channel_title |-> meta_feed.title, channel_id |-> meta_feed.yt_channelid]

\* "feed": {}
NoFeed == [title |-> "", yt_channelid |-> ""]

\* The outcomes of requests.get and feedparser.parse for a feed whose server
\* holds `srv`, asked with If-None-Match `etag`: the feed ("ok"); a body in
\* which feedparser finds no entry ("empty"); 304, when the etag sent is the
\* server's; a status >= 400; an exception (network error, timeout).
Responses(srv, etag) ==
    {[kind |-> "ok", status |-> 200, etag |-> srv.etag, last_modified |-> srv.last_modified,
      entries |-> srv.entries, feed |-> srv.feed],
     [kind |-> "empty", status |-> 200, etag |-> srv.etag, last_modified |-> srv.last_modified,
      entries |-> <<>>, feed |-> NoFeed],
     [kind |-> "http_err", status |-> 503, etag |-> None, last_modified |-> None,
      entries |-> <<>>, feed |-> NoFeed],
     [kind |-> "exc", status |-> -1, etag |-> None, last_modified |-> None,
      entries |-> <<>>, feed |-> NoFeed]}
    \cup (IF Truthy(etag) /\ etag = srv.etag
          THEN {[kind |-> "304", status |-> 304, etag |-> None, last_modified |-> None,
                 entries |-> <<>>, feed |-> NoFeed]}
          ELSE {})

\* Number of faults a response stands for.
RespFaults(resp) == IF resp.kind \in {"ok", "304"} THEN 0 ELSE 1

fetch_feed(feed_url, etag, last_modified, resp) ==
    CASE resp.kind = "304" ->
           [status |-> 304, etag |-> etag, last_modified |-> last_modified,
            entries |-> <<>>, feed |-> NoFeed]
      [] resp.kind = "http_err" ->
           [status |-> resp.status, etag |-> None, last_modified |-> None,
            entries |-> <<>>, feed |-> NoFeed]
      [] resp.kind = "exc" ->
           [status |-> -1, etag |-> etag, last_modified |-> last_modified,
            entries |-> <<>>, feed |-> NoFeed]
      [] OTHER ->
           [status |-> 200, etag |-> Or(resp.etag, etag),
            last_modified |-> Or(resp.last_modified, last_modified),
            entries |-> resp.entries, feed |-> resp.feed]

\* prev.get(feed_url, {}) and prev_info.get(field)
NoInfo == [k \in {} |-> None]
InfoGet(info, field) == IF field \in DOMAIN info THEN info[field] ELSE None

\* The except branch of process_one.
ErrorResult(feed_url, prev_map) ==
    [feed_url |-> feed_url, new_count |-> 0, channel_title |-> "", channel_id |-> "",
     last_seen_before |-> InfoGet(Get(prev_map, feed_url, NoInfo), "last_video_id"),
     last_seen_after |-> InfoGet(Get(prev_map, feed_url, NoInfo), "last_video_id"),
     items |-> <<>>, status |-> -1]

\* The try branch of process_one for the entry prev_info of the mapping;
\* `now` is iso_now().
ProcessFetched(feed_url, prev_info, resp, now) ==
    LET last_id  == InfoGet(prev_info, "last_video_id")
        etag     == InfoGet(prev_info, "etag")
        last_mod == InfoGet(prev_info, "last_modified")
        fetched  == fetch_feed(feed_url, etag, last_mod, resp)
    IN  IF fetched.status = 304
        THEN [feed_url |-> feed_url, new_count |-> 0, channel_title |-> "", channel_id |-> "",
              last_seen_before |-> last_id, last_seen_after |-> last_id,
              items |-> <<>>, status |-> 304]
        ELSE LET n == normalize_items(feed_url, fetched.feed, fetched.entries, last_id)
                 new_state == [last_video_id |-> Or(n.first_vid, last_id),
                               etag |-> fetched.etag,
                               last_modified |-> fetched.last_modified,
                               channel_title |-> n.channel_title,
                               channel_id |-> n.channel_id,
                               last_checked |-> now]
             IN  [feed_url |-> feed_url, new_count |-> Len(n.items),
                  channel_title |-> n.channel_title, channel_id |-> n.channel_id,
                  last_seen_before |-> last_id,
                  last_seen_after |-> new_state.last_video_id,
                  items |-> n.items, status |-> fetched.status,
                  state_patch |-> new_state]

\* process_one(feed_url, prev) when the server answers `resp`, or when an
\* exception is raised inside the try block (`raises`); prev_map is `prev`.
process_one(feed_url, prev_map, resp, raises, now) ==
    IF raises THEN ErrorResult(feed_url, prev_map)
    ELSE ProcessFetched(feed_url, Get(prev_map, feed_url, NoInfo), resp, now)

\* main's loop over the as_completed futures, with the mapping patched as
\* the results come in.
AfterResult_Patches(st, r) ==
    IF "state_patch" \in DOMAIN r THEN Put(st, r.feed_url, r.state_patch) ELSE st

\* main's loop over the as_completed futures (results.append(f.result()))
\* leaves the mapping alone.
AfterResult(st, r) == st

\* per_feed.append({...})
PerFeed(r) ==
    [feed_url |-> r.feed_url, channel_title |-> r.channel_title,
     channel_id |-> r.channel_id, new_count |-> r.new_count, status |-> r.status,
     last_seen_before |-> r.last_seen_before, last_seen_after |-> r.last_seen_after]

\* A merge loop that applies no patch.
MergeState_KeepsOld(st, rs) == st

\* A merge loop that forgets the feeds whose result carries no patch.
RECURSIVE MergeState_Resets(_, _)
MergeState_Resets(st, rs) ==
    IF Len(rs) = 0 THEN st
    ELSE MergeState_Resets(Put(st, rs[1].feed_url,
                               IF "state_patch" \in DOMAIN rs[1]
                               THEN rs[1].state_patch ELSE NoInfo),
                           Tail(rs))

\* if "state_patch" in r and isinstance(r["state_patch"], dict):
\*     state[r["feed_url"]] = r["state_patch"]
RECURSIVE MergeState(_, _)
MergeState(st, rs) ==
    IF Len(rs) = 0 THEN st
    ELSE MergeState(IF "state_patch" \in DOMAIN rs[1]
                    THEN Put(st, rs[1].feed_url, rs[1].state_patch) ELSE st,
                    Tail(rs))

\* all_items.extend(r.get("items", [])) over the results
RECURSIVE AllItems(_)
AllItems(rs) == IF Len(rs) = 0 THEN <<>> ELSE rs[1].items \o AllItems(Tail(rs))

\* all_items.sort(key=sort_key, reverse=True): descending by `published`,
\* items of equal key in their order of before (the sort is stable).
RECURSIVE SortDesc(_)
SortDesc(items) ==
    IF Len(items) = 0 THEN <<>>
    ELSE LET top == CHOOSE k \in 1..Len(items) :
                       /\ \A j \in 1..Len(items) : items[j].published <= items[k].published
                       /\ \A j \in 1..(k - 1) : items[j].published < items[k].published
         IN  <<items[top]>> \o SortDesc(SubSeq(items, 1, top - 1)
                                         \o SubSeq(items, top + 1, Len(items)))

\* payload = {...} built from the results
Payload(rs, first_run) ==
    [mode |-> IF first_run THEN "full" ELSE "diff",
     total_new |-> Len(AllItems(rs)),
     per_feed |-> [k \in 1..Len(rs) |-> PerFeed(rs[k])],
     items |-> SortDesc(AllItems(rs))]

\* load_state(): the mapping of the state file, {} when the file is absent
\* or does not parse.
yt_load_state(file) == IF file.kind = "ok" THEN file.map ELSE EmptyMap

\* save_state(state): STATE_PATH.write_text(json.dumps(state)) in a try
\* block; the outcomes are those of SaveOutcomes.
yt_save_state(st, file, outcome) ==
    CASE outcome = "ok"     -> FileOf(st)
      [] outcome = "noopen" -> file
      [] outcome = "torn"   -> CorruptFile(st)

\* -------------------------------------- yt_rss_diff: state machine ----
\* read_feed_list(txt): the feed urls of the list file.
feeds == <<"f1", "f2">>
FeedUrls == {feeds[k] : k \in 1..Len(feeds)}

\* A feed nothing has been published on; the server names its versions in
\* the ETag header and sends no Last-Modified.
NoServer == [entries |-> <<>>, etag |-> "0", last_modified |-> None,
             feed |-> [title |-> "ch", yt_channelid |-> "UC"]]

\* Videos published so far on all feeds (every publication changes the etag
\* of its feed to the number of the video).
RECURSIVE MaxEtag(_, _)
MaxEtag(srv, n) ==
    IF n = 0 THEN 0
    ELSE IF \E u \in FeedUrls : srv[u].etag = ToString(n) THEN n ELSE MaxEtag(srv, n - 1)
Published(srv) == MaxEtag(srv, MaxVideos)

\* The entry of a YouTube feed for video vid, published at time t.
VideoEntry(vid, t) ==
    [yt_videoid |-> vid, link |-> NoLink, id |-> <<>>, title |-> "t", published |-> t]

\* A task of the pool: queued, running (prev_info read), done.
NoWorker == [pc |-> "queued", info |-> NoInfo, kind |-> ""]

NoPayload == [mode |-> "", total_new |-> 0, per_feed |-> <<>>, items |-> <<>>]

NoNCall == [n |-> 0, entries |-> <<>>, last_seen_id |-> None,
            ret |-> [items |-> <<>>, first_vid |-> None, channel_title |-> "",
                     channel_id |-> ""]]

\* yt_hist: what the run started from; how it saved; anchored: the feeds
\* the run before this one fetched with at least one entry (the video id of
\* the first entry), not published on since; prevSaved: that run saved the
\* mapping; missed: for the feeds whose fetch failed in the run before this
\* one, the ids of the videos that lay before the known one; written: the
\* artifacts the run has written; saves: the calls of save_state in the run;
\* redo: when the run before this one ended in an exception while it wrote
\* its artifacts, the video ids it had found new, by feed.
YtNoHist == [loaded |-> EmptyMap, startDisk |-> AbsentFile, saveOutcome |-> "none",
             anchored |-> EmptyMap, prevSaved |-> FALSE, missed |-> EmptyMap,
             written |-> 0, saves |-> 0, redo |-> EmptyMap]

YtOff ==
    /\ server = [u \in FeedUrls |-> NoServer]
    /\ yt_disk = AbsentFile
    /\ yt_pc = "idle"
    /\ yt_state = EmptyMap
    /\ workers = [u \in FeedUrls |-> NoWorker]
    /\ results = <<>>
    /\ payload = NoPayload
    /\ yt_run = 0
    /\ yt_faults = 0
    /\ yt_hist = YtNoHist
    /\ ncall = NoNCall

NoRows == <<>>

NoPrinted == [run |-> 0, total_new |-> 0, per_browser |-> <<>>]

NoCall == [n |-> 0, rows |-> <<>>, before |-> <<>>, after |-> <<>>, ret |-> 0, clean |-> TRUE]

NoResult == [name |-> "", rows |-> <<>>, prev |-> 0, state |-> EmptyMap]

NoPending == [on |-> FALSE, how |-> "", state |-> EmptyMap, lines |-> {}]

\* hist: what the run started from, what it has done so far (bad: the
\* profiles the collector just called skipped or failed on), what each
\* source's own inputs give (iso, expect), how the run before it went, and
\* whether a write to a log or to the watermark file has failed in this run
\* or in one before it (pfail); late: the profiles a collector skipped, in
\* this run or one before it, in a call that advanced the watermark of their
\* source, each with the number of rows its database held then; lateNow:
\* those of them the collector just called has read; pending: the run before
\* this one appended rows and left the watermark file as it was (its only
\* fault: save_state failed, or the process was stopped before save_state),
\* with the mapping it had computed and the lines it had appended.
NoHist ==
    [startDisk |-> AbsentFile, startLogs |-> [s \in Sources |-> <<>>],
     loaded |-> EmptyMap, saves |-> 0, saveOutcome |-> "none",
     runFaults |-> 0, crashed |-> {}, returned |-> {}, stopped |-> "", lost |-> FALSE,
     writeRaised |-> FALSE, bad |-> {},
     iso |-> NoResult, expect |-> EmptyMap, prevClean |-> FALSE, pfail |-> FALSE,
     late |-> {}, lateNow |-> {}, pending |-> NoPending]

Restrict(st, key) == [k \in (DOMAIN st) \cap {key} |-> st[k]]

AllProfiles == UNION {ProfileSet(s) : s \in Sources}

BackendRows(b) ==
    LET RECURSIVE Sum(_)
        Sum(S) == IF S = {} THEN 0
                  ELSE LET x == CHOOSE x \in S : TRUE
                       IN  Len(b[x[1]][x[2]]) + Sum(S \ {x})
    IN  Sum({x \in Sources \X AllProfiles : x[2] \in ProfileSet(x[1])})

\* The profiles of `late` that the call of src's collector reads.
ReadNow(late, src, oc) == {l \in late : l.src = src /\ oc.prof[l.p].kind = "ok"}

\* The profiles the call skips while it advances the watermark of src.
SkippedNow(fname, src, st, dbs, oc) ==
    IF Get(Call(fname, st, dbs, oc.prof).state, src, 0) > Get(st, src, 0)
    THEN {[src |-> src, p |-> p, n |-> Len(dbs[p])] :
             p \in {q \in ProfileSet(src) : oc.prof[q].kind \in SkipKinds}}
    ELSE {}

\* The lines the run has appended to the logs so far.
Appended ==
    UNION {{l \in {logs[s][k] : k \in 1..Len(logs[s])} :
               l # Header /\ \A k \in 1..Len(hist.startLogs[s]) : hist.startLogs[s][k] # l}
           : s \in Sources}

\* save_state called from inside the loop.
AfterWrite_SaveEarly(k) == "save"

\* The loop  for fn in collectors  goes on, or main goes on to save_state.
AfterWrite(k) == IF k = Len(collectors) THEN "save" ELSE "collect"

\* save_state catches every exception: main goes on to the summary.
AfterSave(outcome) == "summary"

\* browser_history_diff has not run; no browser has recorded a visit.
BrowserIdle ==
    /\ backend = [s \in Sources |-> [p \in ProfileSet(s) |-> <<>>]]
    /\ logs = [s \in Sources |-> <<>>]
    /\ disk = AbsentFile
    /\ pc = "idle"
    /\ i = 0
    /\ state = EmptyMap
    /\ name = ""
    /\ rows = NoRows
    /\ prev = 0
    /\ summaries = <<>>
    /\ all_rows = <<>>
    /\ printed = NoPrinted
    /\ run = 0
    /\ faults = 0
    /\ call = NoCall
    /\ hist = NoHist

Init == BrowserIdle /\ YtOff

\* A browser records a visit (between two runs of the script); the backends
\* hold fewer than `bound` rows.
Record(bound, src, p, url, title, instant) ==
    /\ pc = "idle"
    /\ run < MaxRuns
    /\ BackendRows(backend) < bound
    /\ backend' = [backend EXCEPT ![src][p] =
                      Append(@, [url |-> url, title |-> title, t |-> ToNative(src, instant)])]
    /\ hist' = [hist EXCEPT !.prevClean = FALSE, !.pending = NoPending]
    /\ UNCHANGED <<logs, disk, pc, i, state, name, rows, prev, summaries,
                   all_rows, printed, run, faults, call, ytvars>>

Visit(src, p, url, title, instant) == Record(MaxVisits, src, p, url, title, instant)

\* main(): state = load_state(); all_rows = []; summaries = []
Start ==
    /\ pc = "idle"
    /\ run < MaxRuns
    /\ run' = run + 1
    /\ state' = load_state(disk)
    /\ all_rows' = <<>>
    /\ summaries' = <<>>
    /\ i' = 1
    /\ pc' = "collect"
    /\ hist' = [NoHist EXCEPT !.startDisk = disk, !.startLogs = logs,
                              !.loaded = load_state(disk),
                              !.prevClean = hist.prevClean, !.pfail = hist.pfail,
                              !.late = hist.late, !.pending = hist.pending]
    /\ UNCHANGED <<backend, logs, disk, name, rows, prev, printed, faults, call, ytvars>>

\* for fn in collectors: try: name, rows, prev = fn(state) except ...
Collect ==
    /\ pc = "collect"
    /\ LET fname == collectors[i]
           src   == StripCollect(fname)
       IN  \E oc \in CollectorOutcomes(src, backend[src]) :
             /\ faults + OcFaults(src, oc) <= MaxFaults
             /\ LET res == Invoke(fname, state, backend[src], oc)
                IN  /\ name' = res.name
                    /\ rows' = res.rows
                    /\ prev' = res.prev
                    /\ state' = res.state
             /\ faults' = faults + OcFaults(src, oc)
             /\ hist' = [hist EXCEPT !.runFaults = @ + OcFaults(src, oc),
                            !.crashed = IF Raises(oc) THEN @ \cup {src} ELSE @,
                            !.returned = IF Raises(oc) THEN @ ELSE @ \cup {src},
                            !.bad = {p \in ProfileSet(src) : oc.prof[p].kind # "ok"},
                            !.late = IF Raises(oc) THEN @
                                     ELSE (@ \ ReadNow(@, src, oc))
                                              \cup SkippedNow(fname, src, state, backend[src], oc),
                            !.lateNow = IF Raises(oc) THEN {} ELSE ReadNow(hist.late, src, oc),
                            !.iso = Invoke(fname, Restrict(hist.loaded, src), backend[src], oc)]
    /\ pc' = "write"
    /\ UNCHANGED <<backend, logs, disk, i, summaries, all_rows, printed, run, call, ytvars>>

\* new_written = write_csv_append(rows, out_csv); summaries.append(...);
\* all_rows.extend(rows)
Write ==
    /\ pc = "write"
    /\ \E io \in IoOutcomes(logs[name], Len(rows)) :
         /\ faults + IoFaults(logs[name], io) <= MaxFaults
         /\ LET w   == write_csv_append(rows, logs[name], io)
                src == StripCollect(collectors[i])
                x   == write_csv_append(hist.iso.rows, hist.startLogs[src], io)
            IN  /\ logs' = [logs EXCEPT ![name] = w.file]
                /\ summaries' = Append(summaries, SummaryEntry(name, w.new_written, prev, state))
                /\ call' = [n |-> call.n + 1, rows |-> rows, before |-> logs[name],
                            after |-> w.file, ret |-> w.new_written,
                            clean |-> IoFaults(logs[name], io) = 0]
                /\ hist' = [hist EXCEPT !.runFaults = @ + IoFaults(logs[name], io),
                               !.bad = {}, !.lateNow = {},
                               !.pfail = @ \/ IoFaults(logs[name], io) > 0,
                               !.expect = Put(@, src,
                                   [file  |-> x.file,
                                    entry |-> SummaryEntry(hist.iso.name, x.new_written,
                                                           hist.iso.prev, hist.iso.state),
                                    wm    |-> Get(hist.iso.state, src, -1)])]
         /\ faults' = faults + IoFaults(logs[name], io)
    /\ all_rows' = all_rows \o rows
    /\ i' = i + 1
    /\ pc' = AfterWrite(i)
    /\ UNCHANGED <<backend, disk, state, name, rows, prev, printed, run, ytvars>>

\* write_csv_append(rows, out_csv) raises: out_csv.exists() is called outside
\* the function's try blocks and Path.exists() propagates a PermissionError
\* (the directory out/ cannot be searched); main does not catch it.
WriteRaises ==
    /\ pc = "write"
    /\ faults < MaxFaults
    /\ faults' = faults + 1
    /\ pc' = "aborted"
    /\ hist' = [hist EXCEPT !.runFaults = @ + 1, !.writeRaised = TRUE, !.pfail = TRUE]
    /\ UNCHANGED <<backend, logs, disk, i, state, name, rows, prev, summaries,
                   all_rows, printed, run, call, ytvars>>

\* save_state(state)
Save ==
    /\ pc = "save"
    /\ \E outcome \in SaveOutcomes :
         LET cost == IF outcome = "ok" THEN 0 ELSE 1
         IN  /\ faults + cost <= MaxFaults
             /\ disk' = save_state(state, disk, outcome)
             /\ faults' = faults + cost
             /\ hist' = [hist EXCEPT !.saves = @ + 1, !.saveOutcome = outcome,
                                     !.runFaults = @ + cost,
                                     !.pfail = @ \/ outcome # "ok"]
             /\ pc' = AfterSave(outcome)
    /\ UNCHANGED <<backend, logs, i, state, name, rows, prev, summaries, all_rows,
                   printed, run, call, ytvars>>

\* summary = {...}; write summary.json (a failure is only warned about);
\* zip_outputs, maybe_post; print(json.dumps({"summary": summary, ...}))
Summary ==
    /\ pc = "summary"
    /\ printed' = [run |-> run, total_new |-> Len(all_rows), per_browser |-> summaries]
    /\ pc' = "done"
    /\ UNCHANGED <<backend, logs, disk, i, state, name, rows, prev, summaries,
                   all_rows, run, faults, call, hist, ytvars>>

\* The process exits (after the print, or on an uncaught exception); its
\* memory is gone.
Exit ==
    /\ pc \in {"done", "aborted"}
    /\ pc' = "idle"
    /\ i' = 0
    /\ state' = EmptyMap
    /\ name' = ""
    /\ rows' = NoRows
    /\ prev' = 0
    /\ summaries' = <<>>
    /\ all_rows' = <<>>
    /\ printed' = NoPrinted
    /\ call' = NoCall
    /\ hist' = [NoHist EXCEPT !.prevClean = (pc = "done" /\ hist.runFaults = 0),
                              !.pfail = hist.pfail, !.late = hist.late,
                              !.pending = IF pc = "done" /\ hist.saveOutcome # "ok"
                                             /\ hist.runFaults = 1 /\ Appended # {}
                                          THEN [on |-> TRUE, how |-> "save", state |-> state,
                                                lines |-> Appended]
                                          ELSE NoPending]
    /\ UNCHANGED <<backend, logs, disk, run, faults, ytvars>>

\* The process is stopped in the middle of a run (killed, power loss).
Stop ==
    /\ pc \in {"collect", "write", "save", "summary"}
    /\ faults < MaxFaults
    /\ faults' = faults + 1
    /\ pc' = "idle"
    /\ i' = 0
    /\ state' = EmptyMap
    /\ name' = ""
    /\ rows' = NoRows
    /\ prev' = 0
    /\ summaries' = <<>>
    /\ all_rows' = <<>>
    /\ printed' = NoPrinted
    /\ call' = NoCall
    /\ hist' = [NoHist EXCEPT !.stopped = pc, !.lost = (state # hist.loaded),
                              !.startDisk = hist.startDisk, !.pfail = TRUE,
                              !.late = hist.late,
                              !.pending = IF pc = "save" /\ hist.runFaults = 0 /\ Appended # {}
                                          THEN [on |-> TRUE, how |-> "stop", state |-> state,
                                                lines |-> Appended]
                                          ELSE NoPending]
    /\ UNCHANGED <<backend, logs, disk, run, ytvars>>

NextRun ==
    \/ \E src \in Sources : \E p \in ProfileSet(src) : \E url \in Urls :
         \E title \in Titles : \E instant \in Instants :
           Visit(src, p, url, title, instant)
    \/ Start
    \/ Collect
    \/ Write
    \/ WriteRaises
    \/ Save
    \/ Summary
    \/ Exit

Next == NextRun

Spec == Init /\ [][Next]_vars

\* A process that is not stopped runs on: main() is sequential code.
LiveSpec == Spec /\ WF_vars(Collect) /\ WF_vars(Write) /\ WF_vars(Save) /\ WF_vars(Summary)

\* The runs, and a process that may be stopped in the middle of one.
NextStop == NextRun \/ Stop

StopSpec == Init /\ [][NextStop]_vars

\* name, rows, prev = fn(state)  where fn never returns (a copy or a read
\* that blocks): main calls the collector directly, with no timeout, and
\* stays in the call.
Hang ==
    /\ pc = "collect"
    /\ faults < MaxFaults
    /\ faults' = faults + 1
    /\ pc' = "hung"
    /\ hist' = [hist EXCEPT !.runFaults = @ + 1]
    /\ UNCHANGED <<backend, logs, disk, i, state, name, rows, prev, summaries,
                   all_rows, printed, run, call, ytvars>>

\* The runs, with collectors that may hang.
NextHang == NextRun \/ Hang

HangSpec ==
    /\ Init /\ [][NextHang]_vars
    /\ WF_vars(Collect) /\ WF_vars(Write) /\ WF_vars(Save) /\ WF_vars(Summary)

\* The runs over a longer history of visits, all of them made in Firefox
\* (two profiles); the other collectors run on empty databases.
HistorySources == {"firefox"}

LongVisit(src, p, url, title, instant) == Record(MaxHistory, src, p, url, title, instant)

NextHistory ==
    \/ \E src \in HistorySources : \E p \in ProfileSet(src) : \E url \in Urls :
         \E title \in Titles : \E instant \in Instants :
           LongVisit(src, p, url, title, instant)
    \/ Start
    \/ Collect
    \/ Write
    \/ WriteRaises
    \/ Save
    \/ Summary
    \/ Exit

HistorySpec == Init /\ [][NextHistory]_vars

\* ------------------------------------- write_csv_append on its own ----
\* Events given to write_csv_append: one Event and those that differ from it
\* in the url, the timestamp, the profile or the title only.
CsvBase == [browser |-> "firefox", profile |-> "p1",
            url |-> <<"h", "t", "t", "p", ":", "/", "/", "a">>, title |-> "t",
            ts_unix |-> 1]

CsvEvents ==
    {CsvBase,
     [CsvBase EXCEPT !.url = <<"h", "t", "t", "p", "s", ":", "/", "/", "b">>],
     [CsvBase EXCEPT !.ts_unix = 3],
     [CsvBase EXCEPT !.profile = "p2"],
     [CsvBase EXCEPT !.title = "t2"]}

SeqsUpTo(S, n) == UNION {[1..k -> S] : k \in 0..n}

\* The candidate lists a call may be given.
CsvCands == SeqsUpTo(CsvEvents, MaxCands)

\* The logs a call may find: none, or a header and rows of distinct keys.
CsvLogs ==
    {<<>>} \cup
    {<<Header>> \o [k \in 1..Len(c) |-> CsvLine(c[k])] :
        c \in {d \in CsvCands :
                 \A a, b \in 1..Len(d) : a # b => CandidateKey(d[a]) # CandidateKey(d[b])}}

CsvInit ==
    /\ YtOff
    /\ backend = [s \in Sources |-> [p \in ProfileSet(s) |-> <<>>]]
    /\ \E L \in CsvLogs : logs = [s \in Sources |-> IF s = "firefox" THEN L ELSE <<>>]
    /\ disk = AbsentFile
    /\ pc = "csv"
    /\ i = 0
    /\ state = EmptyMap
    /\ name = ""
    /\ rows = NoRows
    /\ prev = 0
    /\ summaries = <<>>
    /\ all_rows = <<>>
    /\ printed = NoPrinted
    /\ run = 0
    /\ faults = 0
    /\ call = NoCall
    /\ hist = NoHist

\* new_written = write_csv_append(cands, out/history_firefox.csv)
CsvCall ==
    /\ pc = "csv"
    /\ call.n = 0
    /\ \E cands \in CsvCands :
          \E io \in IoOutcomes(logs["firefox"], Len(cands)) :
              /\ faults + IoFaults(logs["firefox"], io) <= MaxFaults
              /\ LET w == write_csv_append(cands, logs["firefox"], io)
                 IN  /\ logs' = [logs EXCEPT !["firefox"] = w.file]
                     /\ call' = [n |-> call.n + 1, rows |-> cands,
                                 before |-> logs["firefox"],
                                 after |-> w.file, ret |-> w.new_written,
                                 clean |-> IoFaults(logs["firefox"], io) = 0]
              /\ faults' = faults + IoFaults(logs["firefox"], io)
    /\ UNCHANGED <<backend, disk, pc, i, state, name, rows, prev, summaries,
                   all_rows, printed, run, hist, ytvars>>

CsvNext == CsvCall

CsvSpec == CsvInit /\ [][CsvNext]_vars

\* ------------------------------------------ a collector on its own ----
\* Urls a history database may hold: an http url, one that begins with the
\* letters http without being an http(s) url, and an ftp url.
ColHttp  == <<"h", "t", "t", "p", ":", "/", "/", "a">>
ColHttpx == <<"h", "t", "t", "p", "x", ":", "/", "/", "c">>
ColFtp   == <<"f", "t", "p", ":", "/", "/", "e">>

\* Instants of the rows: before the Unix epoch, within its first
\* millisecond, between two milliseconds, on a millisecond, later, and
\* beyond what a datetime holds.
ColInstants == {-200, 400, 1400, 2000, 3000, 9500}

ColRows(src) ==
    {[url |-> ColHttp, title |-> "t", t |-> ToNative(src, n)] : n \in ColInstants}
        \cup {[url |-> u, title |-> "t", t |-> ToNative(src, 3000)] : u \in {ColHttpx, ColFtp}}

\* What the databases of a source may hold: at most MaxRows rows in all.
ColDbs(src) ==
    {f \in [ProfileSet(src) -> SeqsUpTo(ColRows(src), MaxRows)] :
        \A p, q \in ProfileSet(src) : p # q => Len(f[p]) + Len(f[q]) <= MaxRows}

\* The mapping a collector is given: no entry, or a watermark of 0.002.
ColStates(src) == {EmptyMap, [k \in {src} |-> 2]}

ColInit ==
    /\ YtOff
    /\ \E k \in 1..Len(collectors) :
         LET src == StripCollect(collectors[k])
         IN  /\ i = k
             /\ \E f \in ColDbs(src) :
                   backend = [s \in Sources |->
                                IF s = src THEN f ELSE [p \in ProfileSet(s) |-> <<>>]]
             /\ \E st \in ColStates(src) :
                   /\ state = st
                   /\ hist = [NoHist EXCEPT !.loaded = st]
    /\ logs = [s \in Sources |-> <<>>]
    /\ disk = AbsentFile
    /\ pc = "collect"
    /\ name = ""
    /\ rows = NoRows
    /\ prev = 0
    /\ summaries = <<>>
    /\ all_rows = <<>>
    /\ printed = NoPrinted
    /\ run = 1
    /\ faults = 0
    /\ call = NoCall

\* name, rows, prev = fn(state)
ColNext == Collect

ColSpec == ColInit /\ [][ColNext]_vars

\* ------------------------------------------------ yt_rss_diff: runs ----
browserVars == <<backend, logs, disk, pc, i, state, name, rows, prev, summaries,
                 all_rows, printed, run, faults, call, hist>>

YtInit == BrowserIdle /\ YtOff

\* A video is published on a feed (between two runs); the server keeps the
\* latest FeedWindow entries, newest first.
Publish(u) ==
    /\ yt_pc = "idle"
    /\ yt_run < MaxYtRuns
    /\ Published(server) < MaxVideos
    /\ LET k   == Published(server) + 1
           all == <<VideoEntry(ToString(k), k)>> \o server[u].entries
       IN  server' = [server EXCEPT ![u].entries = SubSeq(all, 1, Min(FeedWindow, Len(all))),
                                    ![u].etag = ToString(k)]
    /\ yt_hist' = [yt_hist EXCEPT !.anchored = [v \in (DOMAIN @) \ {u} |-> @[v]]]
    /\ UNCHANGED <<yt_disk, yt_pc, yt_state, workers, results, payload, yt_run,
                   yt_faults, ncall, browserVars>>

\* main(): state = load_state(); feeds = read_feed_list(txt);
\* futs = [ex.submit(process_one, u, state) for u in feeds]
YtStart ==
    /\ yt_pc = "idle"
    /\ yt_run < MaxYtRuns
    /\ yt_run' = yt_run + 1
    /\ yt_state' = yt_load_state(yt_disk)
    /\ results' = <<>>
    /\ workers' = [u \in FeedUrls |-> NoWorker]
    /\ yt_pc' = "pool"
    /\ yt_hist' = [yt_hist EXCEPT !.loaded = yt_load_state(yt_disk), !.startDisk = yt_disk,
                                  !.saveOutcome = "none", !.written = 0, !.saves = 0]
    /\ UNCHANGED <<server, yt_disk, payload, yt_faults, ncall, browserVars>>

\* A pool thread takes the task of feed u: process_one reads prev_info.
Begin(u) ==
    /\ yt_pc = "pool"
    /\ workers[u].pc = "queued"
    /\ workers' = [workers EXCEPT ![u] = [pc |-> "running",
                                          info |-> Get(yt_state, u, NoInfo), kind |-> ""]]
    /\ UNCHANGED <<server, yt_disk, yt_pc, yt_state, results, payload, yt_run,
                   yt_faults, yt_hist, ncall, browserVars>>

\* The task of feed u completes: the fetch returns and process_one returns
\* its result, which main appends to `results`; or process_one takes its
\* except branch ("raises"); or an exception leaves process_one and
\* f.result() raises in main ("crash": nothing is appended).
Complete(u) ==
    /\ yt_pc = "pool"
    /\ workers[u].pc = "running"
    /\ \E resp \in Responses(server[u], InfoGet(workers[u].info, "etag")) :
       \E how \in {"returns", "raises", "crash"} :
          LET cost == IF how = "returns" THEN RespFaults(resp) ELSE 1
              r    == IF how = "raises" THEN ErrorResult(u, yt_state)
                      ELSE ProcessFetched(u, workers[u].info, resp, yt_run)
          IN  /\ how # "returns" => resp.kind = "ok"
              /\ yt_faults + cost <= MaxYtFaults
              /\ yt_faults' = yt_faults + cost
              /\ results' = IF how = "crash" THEN results ELSE Append(results, r)
              /\ yt_state' = IF how = "crash" THEN yt_state ELSE AfterResult(yt_state, r)
              /\ workers' = [workers EXCEPT ![u] =
                                [pc |-> "done", info |-> @.info,
                                 kind |-> IF how = "returns" THEN resp.kind ELSE how]]
    /\ UNCHANGED <<server, yt_disk, yt_pc, payload, yt_run, yt_hist, ncall, browserVars>>

\* The pool has shut down: for r in results: ... state[r["feed_url"]] =
\* r["state_patch"]; all_items.sort(...); payload = {...}
Merge ==
    /\ yt_pc = "pool"
    /\ \A u \in FeedUrls : workers[u].pc = "done"
    /\ yt_state' = MergeState(yt_state, results)
    /\ payload' = Payload(results, yt_disk.kind = "absent")
    /\ yt_pc' = "artifacts"
    /\ UNCHANGED <<server, yt_disk, workers, results, yt_run, yt_faults, yt_hist,
                   ncall, browserVars>>

\* The outcomes of writing the two artifacts: both written; write_text of
\* yt_summary.json raises; write_text of the full/diff file raises after the
\* summary was written.
ArtifactOutcomes == {"ok", "summary_raises", "out_raises"}

\* The number of artifacts written.
WrittenBy(outcome) ==
    CASE outcome = "ok" -> 2 [] outcome = "out_raises" -> 1 [] OTHER -> 0

\* Artifact writes whose exceptions are swallowed.
AfterArtifacts_Swallows(outcome) == "save"

\* Where main goes after the writes: neither is in a try block, an
\* exception ends main.
AfterArtifacts(outcome) == IF outcome = "ok" THEN "save" ELSE "aborted"

\* (outdir / "yt_summary.json").write_text(...); out_json.write_text(...)
Artifacts ==
    /\ yt_pc = "artifacts"
    /\ \E outcome \in ArtifactOutcomes :
         LET cost == IF outcome = "ok" THEN 0 ELSE 1
         IN  /\ yt_faults + cost <= MaxYtFaults
             /\ yt_faults' = yt_faults + cost
             /\ yt_pc' = AfterArtifacts(outcome)
             /\ yt_hist' = [yt_hist EXCEPT !.written = WrittenBy(outcome)]
    /\ UNCHANGED <<server, yt_disk, yt_state, workers, results, payload, yt_run,
                   ncall, browserVars>>

\* save_state(state); post_json(payload); print(...)
YtSave ==
    /\ yt_pc = "save"
    /\ \E outcome \in SaveOutcomes :
         LET cost == IF outcome = "ok" THEN 0 ELSE 1
         IN  /\ yt_faults + cost <= MaxYtFaults
             /\ yt_faults' = yt_faults + cost
             /\ yt_disk' = yt_save_state(yt_state, yt_disk, outcome)
             /\ yt_hist' = [yt_hist EXCEPT !.saveOutcome = outcome, !.saves = @ + 1]
    /\ yt_pc' = "done"
    /\ UNCHANGED <<server, yt_state, workers, results, payload, yt_run, ncall,
                   browserVars>>

\* The feeds the run fetched with at least one entry, with the video id of
\* the first entry.
FetchedNow ==
    LET got == {u \in FeedUrls : workers[u].kind = "ok" /\ Len(server[u].entries) > 0}
    IN  [u \in got |-> parse_video_id(server[u].entries[1])]

\* The outcomes of a task that the run treats as a failed or empty fetch.
FailKinds == {"http_err", "exc", "raises", "crash", "empty"}

\* For the feeds whose fetch failed: the video ids of the entries of the
\* feed that precede the one the state file names.
MissedNow ==
    LET bad == {u \in FeedUrls : workers[u].kind \in FailKinds}
    IN  [u \in bad |->
            LET last_id == InfoGet(Get(yt_load_state(yt_disk), u, NoInfo), "last_video_id")
                new     == NewItems(u, "", "", server[u].entries, last_id)
            IN  {new[k].video_id : k \in 1..Len(new)}]

\* The video ids the run found new, by feed, when the run ends in an
\* exception.
RedoNow ==
    IF yt_pc = "aborted"
    THEN [u \in FeedUrls |->
             {payload.items[k].video_id :
                 k \in {j \in 1..Len(payload.items) : payload.items[j].feed_url = u}}]
    ELSE EmptyMap

\* The process exits; its memory is gone.
YtExit ==
    /\ yt_pc \in {"done", "aborted"}
    /\ yt_pc' = "idle"
    /\ yt_state' = EmptyMap
    /\ workers' = [u \in FeedUrls |-> NoWorker]
    /\ results' = <<>>
    /\ payload' = NoPayload
    /\ yt_hist' = [YtNoHist EXCEPT !.anchored = FetchedNow,
                                   !.prevSaved = (yt_hist.saveOutcome = "ok"),
                                   !.missed = MissedNow,
                                   !.redo = RedoNow]
    /\ UNCHANGED <<server, yt_disk, yt_run, yt_faults, ncall, browserVars>>

YtNext ==
    \/ \E u \in FeedUrls : Publish(u)
    \/ YtStart
    \/ \E u \in FeedUrls : Begin(u)
    \/ \E u \in FeedUrls : Complete(u)
    \/ Merge
    \/ Artifacts
    \/ YtSave
    \/ YtExit

YtSpec == YtInit /\ [][YtNext]_vars

\* --------------------------------------- normalize_items on its own ----
\* Entries given to normalize_items: with a yt:videoId, with the id in the
\* link (v=, /shorts/, /embed/), with the id at the end of the entry id,
\* and with no id at all.
NormEntries ==
    {VideoEntry("a", 3), VideoEntry("b", 2),
     [VideoEntry("", 1) EXCEPT !.link = [v |-> "c", path |-> <<"watch">>]],
     [VideoEntry("", 1) EXCEPT !.link = [v |-> "", path |-> <<"Shorts", "a">>]],
     [VideoEntry("", 1) EXCEPT !.id = <<"yt", "video", "b">>],
     VideoEntry("", 1)}

NormLists == SeqsUpTo(NormEntries, MaxEntries)

NormLast == {None, "", "a", "b", "c", "z"}

NormInit ==
    /\ BrowserIdle
    /\ server = [u \in FeedUrls |-> NoServer]
    /\ yt_disk = AbsentFile
    /\ yt_pc = "norm"
    /\ yt_state = EmptyMap
    /\ workers = [u \in FeedUrls |-> NoWorker]
    /\ results = <<>>
    /\ payload = NoPayload
    /\ yt_run = 0
    /\ yt_faults = 0
    /\ yt_hist = YtNoHist
    /\ \E es \in NormLists : \E l \in NormLast :
          ncall = [NoNCall EXCEPT !.entries = es, !.last_seen_id = l]

\* items, first_vid, ch_title, ch_id = normalize_items(feed_url, feed, entries, last_id)
NormCall ==
    /\ yt_pc = "norm"
    /\ ncall.n = 0
    /\ ncall' = [ncall EXCEPT !.n = 1,
                              !.ret = normalize_items("f1", NoServer.feed, ncall.entries,
                                                      ncall.last_seen_id)]
    /\ UNCHANGED <<server, yt_disk, yt_pc, yt_state, workers, results, payload,
                   yt_run, yt_faults, yt_hist, browserVars>>

NormNext == NormCall

NormSpec == NormInit /\ [][NormNext]_vars

TypeOK ==
    /\ pc \in {"idle", "collect", "write", "save", "summary", "done", "aborted", "hung",
              "csv"}
    /\ run \in 0..MaxRuns
    /\ faults \in 0..MaxFaults

\* ------------------------------------------------------------- claims ----
\* The data rows a run has appended to a source's log.
Grown(s) == Len(logs[s]) - Len(hist.startLogs[s])

\* C1.  Idempotence: a run that follows a run without faults, with no visit
\* recorded in between, and that has no fault itself, appends nothing to any
\* log and persists the same watermark mapping as the run before it.
C1_Idempotent ==
    (pc = "done" /\ hist.prevClean /\ hist.runFaults = 0)
        => (logs = hist.startLogs /\ disk = hist.startDisk)

\* The second of two such runs collected a row again and did not append it.
C1_Witness ==
    /\ pc = "done" /\ hist.prevClean /\ hist.runFaults = 0
    /\ Len(all_rows) > 0
    /\ disk.kind = "ok" /\ DOMAIN disk.map # {}
    /\ logs = hist.startLogs

\* C2.  Watermark monotonicity: the watermark of a source never decreases,
\* neither in main's mapping during a run nor in what STATE_PATH gives to
\* the next load_state.
C2_MonotoneStep ==
    \A s \in Sources :
        /\ Get(load_state(disk'), s, 0) >= Get(load_state(disk), s, 0)
        /\ (pc # "idle" /\ pc' # "idle") => Get(state', s, 0) >= Get(state, s, 0)

C2_WatermarkMonotone == [][C2_MonotoneStep]_vars

\* The identity key of a log line and of a candidate Event, as the spec
\* defines it: (url, timestamp as string, profile).
KeyOfLine(l)  == <<l.url, l.ts_unix, l.profile>>
KeyOfEvent(e) == <<e.url, ToString(e.ts_unix), e.profile>>

LinesOf(events) == [k \in 1..Len(events) |-> CsvLine(events[k])]

\* C3.  Dedup correctness: a write_csv_append call whose read and append do
\* not fail appends exactly the candidates whose identity key is not in the
\* existing log, in the order given, and returns their number.
C3_DedupCorrect ==
    (call.n > 0 /\ call.clean) =>
        LET old  == DataRows(call.before)
            keys == {KeyOfLine(old[k]) : k \in 1..Len(old)}
            want == SelectSeq(call.rows, LAMBDA e : KeyOfEvent(e) \notin keys)
        IN  /\ DataRows(call.after) = old \o LinesOf(want)
            /\ call.after[1] = Header
            /\ call.ret = Len(want)

\* The spec's example: two rows in the log, two candidates, one of them new.
C3_Witness ==
    /\ call.n > 0 /\ call.clean
    /\ Len(DataRows(call.before)) = 2
    /\ Len(call.rows) = 2
    /\ KeyOfEvent(call.rows[1]) = KeyOfLine(call.before[2])
    /\ call.ret = 1
    /\ call.after = call.before \o <<CsvLine(call.rows[2])>>

\* C4.  No two rows of a source's log have the same identity key.
C4_NoDuplicateKeys ==
    \A s \in Sources :
        LET d == DataRows(logs[s])
        IN  \A a, b \in 1..Len(d) : a # b => KeyOfLine(d[a]) # KeyOfLine(d[b])

\* The position of a source's collector in `collectors`, and the summary
\* entry main has appended for it.
IndexOf(s) == CHOOSE k \in 1..Len(collectors) : StripCollect(collectors[k]) = s

Written(s) == IndexOf(s) <= Len(summaries)

EntryOf(s) == summaries[IndexOf(s)]

\* C5.  Fault isolation: when the loop is over all four collectors have been
\* invoked, and the log, the summary entry and the watermark of every source
\* whose collector returned are what that source's own inputs give (its
\* watermark at the start of the run, its log, its backend), whatever the
\* other collectors did, a raise included.
C5_FaultIsolation ==
    pc \in {"save", "summary", "done"} =>
        /\ hist.returned \cup hist.crashed = Sources
        /\ \A s \in hist.returned :
              /\ logs[s] = hist.expect[s].file
              /\ EntryOf(s) = hist.expect[s].entry
              /\ Get(state, s, -1) = hist.expect[s].wm

\* A collector raised, and a collector invoked after it brought new rows.
C5_Witness ==
    /\ pc = "done"
    /\ \E c \in hist.crashed : \E s \in hist.returned :
          /\ IndexOf(c) < IndexOf(s)
          /\ EntryOf(s).new_rows > 0
          /\ EntryOf(s).new_last_ts > EntryOf(s).prev_last_ts

\* C6.  The run always completes: whatever collectors raise, profiles are
\* skipped and writes fail, main() does not end before it has called
\* save_state and, after it, printed the summary.
C6_RunCompletes ==
    pc \in {"done", "aborted"} => (hist.saves = 1 /\ printed.run = run)

\* C7.  Collector crash outcome: a source whose collector raised keeps its
\* watermark, gives no Event to the run total nor to its log, and has its
\* summary entry under its own identifier with new_rows = 0.
C7_CrashOutcome ==
    \A s \in hist.crashed :
        /\ Get(state, s, -1) = Get(hist.loaded, s, -1)
        /\ \A k \in 1..Len(all_rows) : all_rows[k].browser # s
        /\ (pc = "write" /\ StripCollect(collectors[i]) = s) => (name = s /\ rows = <<>>)
        /\ Written(s) =>
              /\ DataRows(logs[s]) = DataRows(hist.startLogs[s])
              /\ EntryOf(s).browser = s
              /\ EntryOf(s).new_rows = 0

\* The collector of a source that has a watermark and unread rows raised.
C7_Witness ==
    /\ pc = "done"
    /\ \E s \in hist.crashed :
          /\ s \in DOMAIN state
          /\ \E p \in ProfileSet(s) : Query(backend[s][p], Param(s, state[s])) # <<>>

\* C8.  Single persist point: a run calls save_state once, after all four
\* collectors have been processed; until then STATE_PATH holds what the run
\* before left, also when the process is stopped before the call.
C8_SinglePersist ==
    /\ hist.saves \in {0, 1}
    /\ hist.saves = 1 => (pc \in {"summary", "done"} /\ Len(summaries) = Len(collectors))
    /\ pc \in {"summary", "done"} => hist.saves = 1
    /\ pc \in {"collect", "write", "save"} => disk = hist.startDisk
    /\ hist.stopped \in {"collect", "write", "save"} => disk = hist.startDisk

\* A run that had advanced a watermark in memory was stopped before
\* save_state; the file is the one the run before wrote.
C8_Witness ==
    /\ hist.stopped \in {"collect", "write", "save"}
    /\ hist.lost
    /\ disk.kind = "ok"
    /\ disk = hist.startDisk

\* C9.  Persist failure is non-destructive: when save_state fails, the next
\* load_state still returns the mapping the file held before the attempt.
C9_SaveStep ==
    (pc = "save" /\ hist'.saveOutcome \in {"noopen", "torn"}) =>
        /\ pc' = "summary"
        /\ load_state(disk') = load_state(disk)

C9_FailedSaveKeepsFile == [][C9_SaveStep]_vars

\* C10.  load_state never fails the run: with STATE_PATH absent or
\* unparsable the run starts from the empty mapping, every source's
\* previous watermark is 0, and the run goes on to its end (the one thing
\* that ends a run early is write_csv_append raising, see C6).
C10_Fresh ==
    (pc \in {"collect", "write", "save", "summary", "done"} /\ hist.startDisk.kind # "ok") =>
        /\ (pc = "collect" /\ i = 1) => state = EmptyMap
        /\ \A k \in 1..Len(summaries) : summaries[k].prev_last_ts = 0
        /\ pc = "write" => prev = 0

C10_LoadNeverFails ==
    /\ []C10_Fresh
    /\ \A r \in 1..MaxRuns :
          (run = r /\ pc = "collect" /\ i = 1 /\ hist.startDisk.kind # "ok")
              ~> (run = r /\ (pc = "done" \/ hist.writeRaised))

\* A run that found the file a failed save had cut short has completed,
\* collecting from the start.
C10_Witness ==
    /\ pc = "done"
    /\ hist.startDisk.kind = "corrupt"
    /\ DOMAIN hist.startDisk.map # {}
    /\ Len(all_rows) > 0

\* The ts_unix values of a list of Events.
TsOf(events) == [k \in 1..Len(events) |-> events[k].ts_unix]

\* The lines a log holds.
LineSet(file) == {file[k] : k \in 1..Len(file)}

\* C11.  Strict lower bound: every Event a collector returns comes from a
\* row whose native timestamp is strictly greater than the watermark
\* converted to native units (a row at that value is not emitted), so that
\* a row collected before, the one that set the watermark, is not emitted
\* again by the next run.
C11_StrictLowerBound ==
    (pc = "write" /\ name \in hist.returned) =>
        /\ \A k \in 1..Len(rows) :
              \E p \in ProfileSet(name) : \E j \in 1..Len(backend[name][p]) :
                 LET row == backend[name][p][j]
                 IN  /\ row.t > Param(name, prev)
                     /\ rows[k].profile = p
                     /\ rows[k].url = row.url
                     /\ rows[k].ts_unix = Round3(ToUnix(name, row.t))
        /\ \A k \in 1..Len(rows) :
              ~ (/\ rows[k].ts_unix <= prev
                 /\ CsvLine(rows[k]) \in LineSet(hist.startLogs[name]))

\* C12.  Every Event a collector returns has a ts_unix strictly greater than
\* the watermark the collector found, and when it returns any Event the new
\* watermark is the greatest ts_unix among the Events returned.
C12_AboveWatermark ==
    (pc = "write" /\ name \in hist.returned) =>
        /\ \A k \in 1..Len(rows) : rows[k].ts_unix > prev
        /\ Len(rows) > 0 => Get(state, name, -1) = SeqMax(TsOf(rows))

\* One unit of a source's native timestamps, in the model's microseconds.
NativeUnit(src) == IF src = "safari" THEN UsPerSec ELSE 1

Abs(x) == IF x < 0 THEN -x ELSE x

\* C14.  Epoch round trip: the native timestamp of the row that gave a
\* source its watermark, and the query parameter computed from that
\* watermark, are within one native time unit of each other.
C14_RoundTrip ==
    (pc = "write" /\ name \in hist.returned /\ Len(rows) > 0) =>
        \A p \in ProfileSet(name) : \A j \in 1..Len(backend[name][p]) :
            LET n == backend[name][p][j].t
            IN  (n > Param(name, prev) /\ LikeHttp(backend[name][p][j].url)
                 /\ ToUnix(name, n) > 0
                 /\ Round3(ToUnix(name, n)) = Get(state, name, -1))
                    => Abs(Param(name, state[name]) - n) <= NativeUnit(name)

\* C15.  Collectors do not mutate shared state: the call of a collector
\* leaves main's watermark mapping and the summary accumulator as they were.
C15_CollectStep ==
    pc = "collect" => (state' = state /\ summaries' = summaries)

C15_CollectorsPure == [][C15_CollectStep]_vars

\* C16.  Hung-source cancellation: when a collector never returns, main
\* gives it up after a bounded wait, goes on with the remaining collectors
\* and reaches save_state.
C16_HungSourceCancelled ==
    \A r \in 1..MaxRuns :
        (run = r /\ pc = "hung")
            ~> (run = r /\ Len(summaries) = Len(collectors) /\ hist.saves = 1)

\* url begins with http:// or https://
HasHttpScheme(url) ==
    \/ Prefix(<<"h", "t", "t", "p", ":", "/", "/">>, url)
    \/ Prefix(<<"h", "t", "t", "p", "s", ":", "/", "/">>, url)

\* C13.  Scheme filter: every Event a collector returns has a non-empty url
\* that begins with http:// or https://.
C13_SchemeFilter ==
    (pc = "write" /\ name \in hist.returned) =>
        \A k \in 1..Len(rows) : rows[k].url # <<>> /\ HasHttpScheme(rows[k].url)

\* The profiles of the last collector call that were skipped or whose query
\* raised.
BadProfiles == hist.bad

AllOk(src) == [p \in ProfileSet(src) |-> [kind |-> "ok", k |-> 0]]

\* C17.  Profile-level isolation: a collector with profiles whose database
\* is missing, cannot be copied, cannot be opened or whose query raises
\* still returns, and the Events of its other profiles are those of a call
\* in which the failing profiles hold nothing.
C17_ProfileIsolation ==
    (pc = "write" /\ BadProfiles # {}) =>
        /\ name \in hist.returned
        /\ SelectSeq(rows, LAMBDA e : e.profile \notin BadProfiles)
             = Call(collectors[i], Restrict(hist.loaded, name),
                    [p \in ProfileSet(name) |->
                        IF p \in BadProfiles THEN <<>> ELSE backend[name][p]],
                    AllOk(name)).rows

\* C18.  Malformed rows are discarded: a conversion gives a value <= 0 for a
\* malformed input, and no Event a collector returns, and no watermark, has
\* a ts_unix <= 0.
C18_NoNonPositiveTs ==
    /\ \A s \in Sources : ToUnix(s, ToNative(s, 9500)) <= 0
    /\ (pc = "write" /\ name \in hist.returned) =>
          /\ \A k \in 1..Len(rows) : rows[k].ts_unix > 0
          /\ name \in DOMAIN state => state[name] > 0

\* C19.  After every run with no failed write to a log or to the watermark
\* file so far, a source has no watermark exactly when its log has no rows,
\* and otherwise its watermark is the largest ts_unix of the rows of its log;
\* a collector that returns no Events leaves its source's watermark as it
\* was, and otherwise makes it max(previous, largest ts_unix returned).
TsValues == 0..(MaxInstantUs \div UsPerMs + 1)
\* float(line["ts_unix"]) of a line of a log
TsValue(line) == CHOOSE v \in TsValues : ToString(v) = line.ts_unix
LogTs(file) == [k \in 1..Len(DataRows(file)) |-> TsValue(DataRows(file)[k])]
HeaderOnce(file) ==
    Len(file) > 0 => (file[1] = Header /\ \A k \in 2..Len(file) : file[k] # Header)
C20_Step ==
    \A s \in Sources : Prefix(logs[s], logs'[s]) /\ HeaderOnce(logs'[s])
C20_AppendOnly == [][C20_Step]_vars
\* A call has appended a row to a log that already held a row.
C20_Witness ==
    /\ call.n > 0
    /\ Len(call.before) >= 2
    /\ Len(call.after) > Len(call.before)
    /\ name = "firefox" /\ logs[name] = call.after

\* C23.  Every entry of the summary carries, as prev_last_ts, the watermark
\* its source had in the mapping loaded at the start of the run (0.0 when it
\* had none), and as new_last_ts the watermark the source has in the mapping
\* (a source's watermark does not change once its entry is recorded).
C23_SummaryWatermarks ==
    \A k \in 1..Len(summaries) :
       LET s == summaries[k].browser
       IN  /\ summaries[k].prev_last_ts = Get(hist.loaded, s, 0)
           /\ summaries[k].new_last_ts = Get(state, s, 0)

\* C24.  The total of new rows a run prints is the sum of the new_rows of
\* its per-source entries, which are the rows appended to the logs.
RECURSIVE SumNewRows(_)
SumNewRows(entries) ==
    IF Len(entries) = 0 THEN 0 ELSE entries[1].new_rows + SumNewRows(Tail(entries))
C24_TotalIsSum ==
    pc = "done" => printed.total_new = SumNewRows(printed.per_browser)

\* C26.  After a run, every Event a collector returned in it whose timestamp
\* is not above the watermark stored for its source is a line of the
\* source's log.
C26_NothingLostBehindWatermark ==
    pc = "done" =>
        \A k \in 1..Len(all_rows) :
           LET e  == all_rows[k]
               wm == load_state(disk)
           IN  (e.browser \in DOMAIN wm /\ e.ts_unix <= wm[e.browser]) =>
                   CsvLine(e) \in LineSet(logs[e.browser])

\* C25.  Late-available profile: when a collector reads a profile it had
\* skipped in an earlier run in which the watermark of the source advanced,
\* every eligible row the profile held then is among the Events returned or
\* is already a line of the log.
EventOf(src, p, row) ==
    [browser |-> src, profile |-> p, url |-> row.url, title |-> row.title,
     ts_unix |-> Round3(ToUnix(src, row.t))]
C25_LateProfileCollected ==
    pc = "write" =>
        \A l \in hist.lateNow : \A j \in 1..l.n :
           LET row == backend[l.src][l.p][j]
               e   == EventOf(l.src, l.p, row)
           IN  (LikeHttp(row.url) /\ ToUnix(l.src, row.t) > 0) =>
                  \/ \E k \in 1..Len(rows) : rows[k] = e
                  \/ CsvLine(e) \in LineSet(logs[l.src])

\* C27.  Recovery from an un-persisted watermark: the run before this one
\* appended rows and left the watermark file as it was, the backends have
\* not changed since, and this run has ended without a fault.  Then every
\* line the earlier run appended is the line of an Event collected again and
\* is in the logs as often as before, and the watermark file holds the
\* mapping the earlier run had computed.
Count(file, l) == Cardinality({k \in 1..Len(file) : file[k] = l})
C27_Recovery ==
    (pc = "done" /\ hist.pending.on /\ hist.runFaults = 0) =>
        /\ \A l \in hist.pending.lines :
              /\ \E k \in 1..Len(all_rows) : CsvLine(all_rows[k]) = l
              /\ \A s \in Sources : Count(logs[s], l) = Count(hist.startLogs[s], l)
        /\ disk = FileOf(hist.pending.state)
\* The process was stopped before save_state, after appending a row, and the
\* next run has ended.
C27_Witness ==
    /\ pc = "done" /\ hist.pending.on /\ hist.runFaults = 0
    /\ hist.pending.how = "stop"
    /\ load_state(hist.startDisk) # hist.pending.state
    /\ Len(all_rows) > 0

\* ------------------------------------------------------------ C21 ----
\* The positions of `entries` whose video id is last_seen_id.
KnownAt(entries, last_seen_id) ==
    {k \in 1..Len(entries) : parse_video_id(entries[k]) = last_seen_id}

\* The number of entries before the first known one; all of them when
\* last_seen_id is unset (None or "") or is the id of no entry.
NewCount(entries, last_seen_id) ==
    LET at == KnownAt(entries, last_seen_id)
    IN  IF Truthy(last_seen_id) /\ at # {}
        THEN (CHOOSE k \in at : \A j \in at : k <= j) - 1
        ELSE Len(entries)

\* C21: normalize_items returns, in feed order, exactly the entries before
\* the first entry whose video id is last_seen_id, all entries when
\* last_seen_id is unset or is not in the feed, and the first id it
\* reports is the video id of the first entry.
C21_FeedDiff ==
    ncall.n = 1 =>
        LET es == ncall.entries
            n  == NewCount(es, ncall.last_seen_id)
        IN  /\ Len(ncall.ret.items) = n
            /\ \A k \in 1..n :
                  ncall.ret.items[k] =
                      Item("f1", NoServer.feed.title, NoServer.feed.yt_channelid,
                           es[k], parse_video_id(es[k]))
            /\ Len(es) > 0 => ncall.ret.first_vid = parse_video_id(es[1])

\* C21 witness: a call that returned some but not all of the entries.
C21_Witness ==
    /\ ncall.n = 1
    /\ Truthy(ncall.last_seen_id)
    /\ Len(ncall.ret.items) > 0
    /\ Len(ncall.ret.items) < Len(ncall.entries)


\* ------------------------------------------------------------ C22 ----
\* The last_video_id the state file `file` holds for feed u.
SavedId(file, u) == InfoGet(Get(yt_load_state(file), u, NoInfo), "last_video_id")

\* The entries of the run's report that are about feed u.
ReportsOf(u) == {k \in 1..Len(payload.per_feed) : payload.per_feed[k].feed_url = u}

\* The run reports nothing new for feed u.
NothingNew(u) ==
    /\ \A k \in ReportsOf(u) : payload.per_feed[k].new_count = 0
    /\ \A k \in 1..Len(payload.items) : payload.items[k].feed_url # u

\* C22: after a run that fetched a feed with at least one entry and saved
\* its state, the saved last_video_id of the feed is the video id of its
\* first entry; a following run over the unchanged feed reports nothing new
\* for it and leaves its saved last_video_id as it was.
C22_FeedIdempotent ==
    (yt_pc = "done" /\ yt_hist.saveOutcome = "ok") =>
        /\ \A u \in DOMAIN FetchedNow : SavedId(yt_disk, u) = FetchedNow[u]
        /\ yt_hist.prevSaved =>
              \A u \in DOMAIN yt_hist.anchored :
                  /\ NothingNew(u)
                  /\ SavedId(yt_disk, u) = yt_hist.anchored[u]
                  /\ SavedId(yt_disk, u) = SavedId(yt_hist.startDisk, u)

\* C22 witness: the second run fetched an unchanged feed in full (status
\* 200) and reported nothing new for it.
C22_Witness ==
    /\ yt_pc = "done" /\ yt_hist.saveOutcome = "ok" /\ yt_hist.prevSaved
    /\ \E u \in DOMAIN yt_hist.anchored :
          /\ workers[u].kind = "ok"
          /\ ReportsOf(u) # {}
          /\ NothingNew(u)


\* ------------------------------------------------------------ C28 ----
\* The results of the run that are about feed u.
ResultsOf(u) == {k \in 1..Len(results) : results[k].feed_url = u}

\* C28: for a feed whose fetch returned 304, process_one reports no new
\* item, last_seen_after equal to last_seen_before and no state patch; the
\* feed's entry of the mapping, and of the state file once it is written,
\* is the one the run loaded.
C28_NotModified ==
    \A u \in FeedUrls :
        workers[u].kind = "304" =>
            /\ \A k \in ResultsOf(u) :
                  /\ results[k].status = 304
                  /\ results[k].new_count = 0
                  /\ results[k].items = <<>>
                  /\ results[k].last_seen_after = results[k].last_seen_before
                  /\ "state_patch" \notin DOMAIN results[k]
            /\ Get(yt_state, u, NoInfo) = Get(yt_hist.loaded, u, NoInfo)
            /\ (yt_pc = "done" /\ yt_hist.saveOutcome # "torn") =>
                  Get(yt_load_state(yt_disk), u, NoInfo)
                      = Get(yt_load_state(yt_hist.startDisk), u, NoInfo)

\* C28 witness: a run saved its state after one feed answered 304 and the
\* entry of the other feed changed.
C28_Witness ==
    /\ yt_pc = "done" /\ yt_hist.saveOutcome = "ok"
    /\ \E u, v \in FeedUrls :
          /\ workers[u].kind = "304"
          /\ ResultsOf(u) # {}
          /\ u \in DOMAIN yt_load_state(yt_disk)
          /\ Get(yt_state, v, NoInfo) # Get(yt_hist.loaded, v, NoInfo)


\* ------------------------------------------------------------ C29 ----
\* The video ids of feed u that the run reports as new.
ReportedIds(u) ==
    {payload.items[k].video_id :
        k \in {j \in 1..Len(payload.items) : payload.items[j].feed_url = u}}

\* C29: for a feed whose fetch failed (status >= 400, network error, an
\* exception in process_one) or returned no entry, the run reports nothing
\* new and the feed's last_video_id is the one the run loaded, in the
\* mapping and in the state file; the next run that fetches the feed
\* reports the videos the failed run would have reported.
C29_FailedFetchKeepsAnchor ==
    /\ \A u \in FeedUrls :
          workers[u].kind \in FailKinds =>
              /\ \A k \in ResultsOf(u) :
                    /\ results[k].new_count = 0
                    /\ results[k].items = <<>>
                    /\ results[k].last_seen_after = results[k].last_seen_before
              /\ yt_pc \in {"artifacts", "save", "done", "aborted"} => NothingNew(u)
              /\ InfoGet(Get(yt_state, u, NoInfo), "last_video_id")
                    = InfoGet(Get(yt_hist.loaded, u, NoInfo), "last_video_id")
              /\ (yt_pc = "done" /\ yt_hist.saveOutcome # "torn") =>
                    SavedId(yt_disk, u) = SavedId(yt_hist.startDisk, u)
    /\ \A u \in DOMAIN yt_hist.missed :
          (yt_pc \in {"artifacts", "save", "done", "aborted"} /\ workers[u].kind = "ok") =>
              yt_hist.missed[u] \subseteq ReportedIds(u)

\* C29 witness: the fetch of a feed with an unseen video failed in one run
\* and the next run reports the video, together with one published later.
C29_Witness ==
    /\ yt_pc = "done"
    /\ \E u \in DOMAIN yt_hist.missed :
          /\ workers[u].kind = "ok"
          /\ yt_hist.missed[u] # {}
          /\ yt_hist.missed[u] \subseteq ReportedIds(u)
          /\ yt_hist.missed[u] # ReportedIds(u)


\* ------------------------------------------------------------ C30 ----
\* What process_one can return for feed u from the mapping st in run t.
ResultsFrom(u, st, t) ==
    {process_one(u, st, resp, raises, t) :
        resp \in Responses(server[u], InfoGet(Get(st, u, NoInfo), "etag")),
        raises \in BOOLEAN}

\* `rs` in the order p
Reordered(rs, p) == [k \in 1..Len(rs) |-> rs[p[k]]]

\* While the pool runs nothing writes the mapping; the mapping changes only
\* when main loads it, when main merges the results after every task is
\* done, and when the process exits.
C30_Step ==
    /\ (yt_pc = "pool" /\ yt_pc' = "pool") => yt_state' = yt_state
    /\ yt_state' # yt_state =>
          \/ yt_pc = "idle"
          \/ yt_pc = "pool" /\ \A u \in FeedUrls : workers[u].pc = "done"
          \/ yt_pc' = "idle"

\* Every result is one that process_one gives from the mapping loaded at
\* the start of the run, and the merged mapping is the same for every order
\* of the results.
C30_State ==
    /\ \A k \in 1..Len(results) :
          results[k] \in ResultsFrom(results[k].feed_url, yt_hist.loaded, yt_run)
    /\ yt_pc \in {"artifacts", "save", "done", "aborted"} =>
          \A p \in Permutations(1..Len(results)) :
              MergeState(yt_hist.loaded, Reordered(results, p)) = yt_state

\* C30: for every interleaving of the pool's tasks, no task writes the
\* mapping of feed states; only main changes it, after all tasks are done;
\* a task's result depends only on the mapping loaded at the start of the
\* run and the final mapping does not depend on the order of completion.
C30_WorkerIsolation == [][C30_Step]_vars /\ []C30_State

\* C30 witness: the tasks completed in the reverse of the order of the feed
\* list, both with a patch, and main has merged them.
C30_Witness ==
    /\ yt_pc = "save"
    /\ Len(results) = 2
    /\ results[1].feed_url = feeds[2]
    /\ results[2].feed_url = feeds[1]
    /\ \A k \in 1..2 : "state_patch" \in DOMAIN results[k]
    /\ yt_state # yt_hist.loaded
    /\ \A u \in FeedUrls : u \in DOMAIN yt_state


\* ------------------------------------------------------------ C31 ----
\* save_state is called only when both artifacts are written and it was
\* not called before in the run; the state file changes in no other step.
C31_Step ==
    /\ yt_hist'.saves # yt_hist.saves =>
          \/ yt_pc = "idle"
          \/ yt_pc' = "idle"
          \/ yt_pc = "save" /\ yt_hist.written = 2 /\ yt_hist.saves = 0
    /\ yt_disk' # yt_disk => yt_hist'.saves = yt_hist.saves + 1

\* A run that gets through has called save_state once; a run ended by an
\* exception of an artifact write has not called it and the state file is
\* the one the run found; the next run that fetches a feed reports again
\* what such a run had found new on it.
C31_State ==
    /\ yt_hist.saves <= 1
    /\ yt_pc = "done" => (yt_hist.saves = 1 /\ yt_hist.written = 2)
    /\ yt_pc = "aborted" =>
          /\ yt_hist.written < 2
          /\ yt_hist.saves = 0
          /\ yt_disk = yt_hist.startDisk
    /\ \A u \in DOMAIN yt_hist.redo :
          (yt_pc \in {"artifacts", "save", "done", "aborted"} /\ workers[u].kind = "ok") =>
              yt_hist.redo[u] \subseteq ReportedIds(u)

\* C31: in a run save_state is executed once, and only after the summary
\* artifact and the full/diff artifact are written; when the write of
\* either raises, the state file stays as the run before left it and the
\* next run reports the items of the failed run again.
C31_OutputBeforeState == [][C31_Step]_vars /\ []C31_State

\* C31 witness: the run after one that an artifact write ended has fetched
\* a feed, reported the items of the failed run again and saved.
C31_Witness ==
    /\ yt_pc = "done" /\ yt_hist.saves = 1 /\ yt_hist.saveOutcome = "ok"
    /\ \E u \in DOMAIN yt_hist.redo :
          /\ yt_hist.redo[u] # {}
          /\ workers[u].kind = "ok"
          /\ yt_hist.redo[u] \subseteq ReportedIds(u)

====
